---- MODULE Spec2Model ----
(***************************************************************************)
(* A model of the MARLEY exit-channel hierarchy (marley/ExitChannel.hh):   *)
(* the four channel variants, their constructors, the lazily built caches  *)
(* of the continuum channels, width-weighted selection, the decay-chain    *)
(* loop that drives them and two threads sharing a channel; and of the     *)
(* event record (src/Event.cc), which owns its particles.                  *)
(*                                                                         *)
(* Real-valued quantities (MeV) are modelled on an integer grid.  The      *)
(* bodies of the do_decay() and sample_spin_parity() members, the          *)
(* Generator, the ChebyshevInterpolatingFunction and the decay-chain       *)
(* driver are declared or used by the header but defined elsewhere; they   *)
(* are modelled from the design document.                                  *)
(***************************************************************************)
EXTENDS Integers, Sequences, FiniteSets, TLC

VARIABLES
  chan,     \* channel objects: object id -> channel record or NoChannel
  args,     \* per object id, the arguments its constructor was called with
  nuc,      \* per run, the nuclear state (Ex, two_J, Pi) the driver holds
  rng,      \* per run, the state of the random number generator
  last,     \* per run, the outcome of the latest decay call
  hist,     \* per run, the sequence of outcomes of its decay calls
  cascade,  \* the decay-chain driver's loop state
  sel,      \* the inputs and the result of a width-weighted selection
  thread,   \* per thread, its position inside do_decay and its locals
  events,   \* Event objects: slot -> event record
  heap,     \* the marley::Particle objects allocated with new
  op,       \* the latest Event operation and what it returned
  fault     \* memory faults that have happened so far

channelVars == <<chan, args, nuc, rng, last, hist, cascade, sel>>

eventVars == <<events, heap, op, fault>>

vars == <<chan, args, nuc, rng, last, hist, cascade, sel, thread, events,
          heap, op, fault>>

----------------------------------------------------------------------------
(* Bounds of the model *)

MaxE == 2          \* excitation energies lie on the grid 0..MaxE
MaxWidth == 1      \* constructor widths are drawn from {-1, 0, MaxWidth}
MaxTwoJ == 2       \* two_J is drawn from 0..MaxTwoJ
MaxCalls == 2      \* decay calls per run in the two-run specification
MaxLen == 3        \* length of the lists offered to the selector
MaxWeight == 3     \* weights of the elements offered to the selector

Energies == 0..MaxE
Widths == {-1, 0, MaxWidth}
TwoJs == 0..MaxTwoJ
Parities == {1, -1}

----------------------------------------------------------------------------
(* External collaborators *)

\* marley_utils::PHOTON and the PDG code of the one fragment of the model
PHOTON == 22
FragmentPid == 2112

\* marley::Level records owned by the structure database: the level of the
\* design document's example (Ex = 1, twoJ = 4, Pi = +) and a ground state
Levels == <<[energy |-> 1, twoJ |-> 4, parity |-> 1],
            [energy |-> 0, twoJ |-> 0, parity |-> -1]>>

LevelIds == DOMAIN Levels

\* The excitation-energy densities handed to the continuum constructors
PdfNames == {"ramp", "zero", "negative"}

Epdf(name, e) ==
  CASE name = "ramp"     -> e + 1
    [] name = "zero"     -> 0
    [] name = "negative" -> IF e = 0 THEN -1 ELSE 1

\* Level-density model: levels per MeV at (Ex, twoJ, Pi).  There are no
\* continuum levels at Ex = 0 and only positive-parity ones at Ex = 1.
LevelDensity(e, twoJ, p) ==
  IF e = 0 THEN 0 ELSE IF p = 1 THEN e ELSE e - 1

\* marley::Generator: a linear congruential generator of full period
RngMod == 4

NextRng(x) == (5 * x + 3) % RngMod

\* A draw from Uniform[0, total) taken from generator state x
UniformBelow(x, total) == (x * total) \div RngMod

----------------------------------------------------------------------------
(* Helpers on sequences *)

RECURSIVE SumTo(_, _)
SumTo(w, n) == IF n = 0 THEN 0 ELSE SumTo(w, n - 1) + w[n]

Total(w) == SumTo(w, Len(w))

RECURSIVE SeqOfSet(_)
SeqOfSet(S) ==
  IF S = {} THEN <<>>
  ELSE LET m == CHOOSE x \in S : \A y \in S : x <= y
       IN <<m>> \o SeqOfSet(S \ {m})

----------------------------------------------------------------------------
(* The exit-channel hierarchy *)

\* A channel object is a record of its members.  jpi_built says whether the
\* spin-parity table has been built.  Three fields are bookkeeping of the
\* model: ecdf_builds and jpi_builds count the builds of each cache, and
\* used says whether do_decay was ever called on the object.
NoChannel == [kind |-> "none"]
\* args[o] records what the caller passed: the constructor arguments and
\* the flag last given to set_skip_jpi_sampling (false when never called)
NoArgs == [kind |-> "none"]

\* ExitChannel::ExitChannel(double width) : width_(width) {}
\* The value stored in width_; the constructor tests nothing.
\* (ExitChannel_Clamped: a constructor that stores max(width, 0).)
ExitChannel_Clamped(width) == IF width < 0 THEN 0 ELSE width

ExitChannel(width) == width

\* DiscreteExitChannel(width, flev, residue)
\*   : ExitChannel(width), final_level_(flev), residue_(residue)
\* (DiscreteExitChannel_FirstLevel: a constructor that binds the first level
\* of the scheme whatever flev is.)
DiscreteExitChannel_FirstLevel(kind, width, flev) ==
  [kind |-> kind, width_ |-> ExitChannel(width), final_level_ |-> 1,
   Emin_ |-> 0, Emax_ |-> 0, Epdf_ |-> "none", Ecdf_ |-> <<>>,
   jpi_widths_table_ |-> <<>>, jpi_built |-> FALSE,
   skip_jpi_sampling_ |-> FALSE,
   ecdf_builds |-> 0, jpi_builds |-> 0, used |-> FALSE]

DiscreteExitChannel(kind, width, flev) ==
  [kind |-> kind, width_ |-> ExitChannel(width), final_level_ |-> flev,
   Emin_ |-> 0, Emax_ |-> 0, Epdf_ |-> "none", Ecdf_ |-> <<>>,
   jpi_widths_table_ |-> <<>>, jpi_built |-> FALSE,
   skip_jpi_sampling_ |-> FALSE,
   ecdf_builds |-> 0, jpi_builds |-> 0, used |-> FALSE]

FragmentDiscreteExitChannel(width, flev) ==
  DiscreteExitChannel("FragmentDiscrete", width, flev)

GammaDiscreteExitChannel(width, flev) ==
  DiscreteExitChannel("GammaDiscrete", width, flev)

\* ContinuumExitChannel(width, Emin, Emax, gs_residue)
\*   : ExitChannel(width), Emin_(Emin), Emax_(Emax), gs_residue_(gs_residue)
\* Ecdf_ is a default-constructed (null) unique_ptr, jpi_widths_table_ a
\* default-constructed (empty) vector and skip_jpi_sampling_ = false.
\* The members that carry kinematics only (residue_, gs_residue_,
\* fragment_, total_KE_CM_frame_) are left out.
\* (Faulty variants: _WidthAsEmax initializes Emax_ from width, _EagerTable
\* marks the table as built by the constructor, _SkipByDefault starts with
\* skip_jpi_sampling_ = true.)
ContinuumExitChannel_WidthAsEmax(kind, width, Emin, Emax, pdf) ==
  [kind |-> kind, width_ |-> ExitChannel(width), final_level_ |-> 0,
   Emin_ |-> Emin, Emax_ |-> width,
   Epdf_ |-> pdf, Ecdf_ |-> <<>>,
   jpi_widths_table_ |-> <<>>, jpi_built |-> FALSE,
   skip_jpi_sampling_ |-> FALSE,
   ecdf_builds |-> 0, jpi_builds |-> 0, used |-> FALSE]

ContinuumExitChannel_EagerTable(kind, width, Emin, Emax, pdf) ==
  [kind |-> kind, width_ |-> ExitChannel(width), final_level_ |-> 0,
   Emin_ |-> Emin, Emax_ |-> Emax, Epdf_ |-> pdf, Ecdf_ |-> <<>>,
   jpi_widths_table_ |-> <<>>, jpi_built |-> TRUE,
   skip_jpi_sampling_ |-> FALSE,
   ecdf_builds |-> 0, jpi_builds |-> 1, used |-> FALSE]

ContinuumExitChannel_SkipByDefault(kind, width, Emin, Emax, pdf) ==
  [kind |-> kind, width_ |-> ExitChannel(width), final_level_ |-> 0,
   Emin_ |-> Emin, Emax_ |-> Emax, Epdf_ |-> pdf, Ecdf_ |-> <<>>,
   jpi_widths_table_ |-> <<>>, jpi_built |-> FALSE,
   skip_jpi_sampling_ |-> TRUE,
   ecdf_builds |-> 0, jpi_builds |-> 0, used |-> FALSE]

ContinuumExitChannel(kind, width, Emin, Emax, pdf) ==
  [kind |-> kind, width_ |-> ExitChannel(width), final_level_ |-> 0,
   Emin_ |-> Emin, Emax_ |-> Emax, Epdf_ |-> pdf, Ecdf_ |-> <<>>,
   jpi_widths_table_ |-> <<>>, jpi_built |-> FALSE,
   skip_jpi_sampling_ |-> FALSE,
   ecdf_builds |-> 0, jpi_builds |-> 0, used |-> FALSE]

FragmentContinuumExitChannel(width, Emin, Emax, pdf) ==
  ContinuumExitChannel("FragmentContinuum", width, Emin, Emax, pdf)

GammaContinuumExitChannel(width, Emin, Emax, pdf) ==
  ContinuumExitChannel("GammaContinuum", width, Emin, Emax, pdf)

\* is_continuum(), emits_fragment(), width(), emitted_particle_pdg()
is_continuum(c) == c.kind \in {"FragmentContinuum", "GammaContinuum"}

emits_fragment(c) == c.kind \in {"FragmentDiscrete", "FragmentContinuum"}

width(c) == c.width_

emitted_particle_pdg(c) == IF emits_fragment(c) THEN FragmentPid ELSE PHOTON

\* set_skip_jpi_sampling(bool skip_it) const { skip_jpi_sampling_ = skip_it; }
\* (set_skip_jpi_sampling_Ignored: a setter that stores nothing.)
set_skip_jpi_sampling_Ignored(c, skip_it) == c

set_skip_jpi_sampling(c, skip_it) ==
  [c EXCEPT !.skip_jpi_sampling_ = skip_it]

\* make_width_iterator: the view of a channel list through &ExitChannel::width_
\* (make_width_iterator_Shifted: a view that starts one element late.)
make_width_iterator_Shifted(list) ==
  [i \in DOMAIN list |-> list[(i % Len(list)) + 1].width_]

make_width_iterator(list) == [i \in DOMAIN list |-> list[i].width_]

----------------------------------------------------------------------------
(* Width-weighted selection *)

Cumulative(w) == [i \in DOMAIN w |-> SumTo(w, i)]

\* The first position whose cumulative weight exceeds t
FirstAbove(cum, t) ==
  CHOOSE i \in DOMAIN cum :
    /\ cum[i] > t
    /\ \A j \in 1..(i - 1) : cum[j] <= t

\* Selection over weights w with the draw t from Uniform[0, Total(w))
WeightedSelect(w, t) == FirstAbove(Cumulative(w), t)

----------------------------------------------------------------------------
(* Continuum sampling: phase 1, the lazily built inverse-CDF interpolant *)

PdfValues(c) ==
  [i \in 1..(c.Emax_ - c.Emin_ + 1) |-> Epdf(c.Epdf_, c.Emin_ + i - 1)]

\* The outcome of building the interpolant of channel c
BuildEcdf(c) ==
  LET f == PdfValues(c)
  IN IF \E i \in DOMAIN f : f[i] < 0
       THEN [status |-> "DensityViolation", Ecdf |-> <<>>]
     ELSE IF Total(f) = 0
       THEN [status |-> "NumericalConvergenceFailure", Ecdf |-> <<>>]
     ELSE [status |-> "ok", Ecdf |-> Cumulative(f)]

\* if ( !Ecdf_ ) build it; the built interpolant is kept in the channel
EnsureEcdf(c) ==
  IF c.Ecdf_ # <<>> THEN [status |-> "ok", chan |-> c]
  ELSE LET b == BuildEcdf(c)
       IN IF b.status = "ok"
            THEN [status |-> "ok",
                  chan |-> [c EXCEPT !.Ecdf_ = b.Ecdf, !.ecdf_builds = @ + 1]]
            ELSE [status |-> b.status, chan |-> c]

\* The inverse CDF evaluated at the uniform draw held by generator state x
InverseCdf(c, x) ==
  c.Emin_ + FirstAbove(c.Ecdf_, UniformBelow(x, c.Ecdf_[Len(c.Ecdf_)])) - 1

----------------------------------------------------------------------------
(* Continuum sampling: phase 2, the spin-parity width table *)

\* SpinParityWidth(twoJ, p, w)
SpinParityWidth(twoJ, p, w) == [twoJf |-> twoJ, Pf |-> p, width |-> w]

\* Final spins reachable from two_J: by a dipole photon, or by a fragment
\* of spin 1/2
CandidateTwoJ(c, twoJ) ==
  IF emits_fragment(c)
    THEN {twoJ - 1, twoJ + 1} \cap TwoJs
    ELSE {twoJ - 2, twoJ, twoJ + 2} \cap TwoJs

RECURSIVE JpiEntries(_, _)
JpiEntries(exf, js) ==
  IF js = <<>> THEN <<>>
  ELSE LET j == Head(js)
           plus == LevelDensity(exf, j, 1)
           minus == LevelDensity(exf, j, -1)
       IN (IF plus > 0 THEN <<SpinParityWidth(j, 1, plus)>> ELSE <<>>)
          \o (IF minus > 0 THEN <<SpinParityWidth(j, -1, minus)>> ELSE <<>>)
          \o JpiEntries(exf, Tail(js))

\* The table built at final energy exf from the entry spin
BuildJpiTable(c, exf, st) == JpiEntries(exf, SeqOfSet(CandidateTwoJ(c, st.two_J)))

\* The table is built when it has not been built, and kept
EnsureJpiTable(c, exf, st) ==
  IF c.jpi_built THEN c
  ELSE [c EXCEPT !.jpi_widths_table_ = BuildJpiTable(c, exf, st),
                 !.jpi_built = TRUE, !.jpi_builds = @ + 1]

\* The view of the table through &SpinParityWidth::width
JpiWidths(table) == [i \in DOMAIN table |-> table[i].width]

----------------------------------------------------------------------------
(* do_decay: one decay through a channel                                   *)
(* c is the channel, st the nuclear state on entry, x the generator state. *)
(* The result carries the outcome, the channel with its caches, the        *)
(* nuclear state handed back and the generator state left behind.          *)

DecayResult(status, c, ex, twoJ, p, x, n) ==
  [status |-> status, chan |-> [c EXCEPT !.used = TRUE],
   Ex |-> ex, two_J |-> twoJ, Pi |-> p, rng |-> x, draws |-> n]

\* A failed call hands back the state it was given
DecayFailure(status, c, st, x, n) ==
  DecayResult(status, c, st.Ex, st.two_J, st.Pi, x, n)

\* Fragment/GammaDiscreteExitChannel::do_decay: the final level's values;
\* the Generator argument is unused
DiscreteDoDecay(c, st, x) ==
  LET flev == Levels[c.final_level_]
  IN DecayResult("ok", c, flev.energy, flev.twoJ, flev.parity, x, 0)

\* sample_spin_parity: build the table when needed, fail on an empty one,
\* else a width-weighted draw over its entries
SampleSpinParity(c, exf, st, x) ==
  LET c2 == EnsureJpiTable(c, exf, st)
      table == c2.jpi_widths_table_
  IN IF table = <<>>
       THEN DecayFailure("NoAccessibleChannel", c2, st, x, 1)
       ELSE LET w == JpiWidths(table)
                e == table[WeightedSelect(w, UniformBelow(x, Total(w)))]
            IN DecayResult("ok", c2, exf, e.twoJf, e.Pf, NextRng(x), 2)

\* Fragment/GammaContinuumExitChannel::do_decay
ContinuumDoDecay(c, st, x) ==
  LET b == EnsureEcdf(c)
  IN IF b.status # "ok" THEN DecayFailure(b.status, c, st, x, 0)
     ELSE LET exf == InverseCdf(b.chan, x)
              c1 == b.chan
          IN IF c1.skip_jpi_sampling_
               THEN DecayResult("ok", c1, exf, st.two_J, st.Pi, NextRng(x), 1)
               ELSE SampleSpinParity(c1, exf, st, NextRng(x))

\* A variant drawing from one generator shared by every run
do_decay_SharedGenerator(c, st, x) ==
  IF is_continuum(c) THEN ContinuumDoDecay(c, st, rng[1])
  ELSE DiscreteDoDecay(c, st, rng[1])

do_decay(c, st, x) ==
  IF is_continuum(c) THEN ContinuumDoDecay(c, st, x)
  ELSE DiscreteDoDecay(c, st, x)

----------------------------------------------------------------------------
(* Operations on channel objects *)

NuclearStates == [Ex : Energies, two_J : TwoJs, Pi : Parities]

\* The states a caller enters do_decay with: any spin and parity, at the
\* lowest and at the highest energy
EntryStates == {st \in NuclearStates : st.Ex \in {0, MaxE}}

NoCall == [status |-> "none"]

ContinuumIntervals == {iv \in Energies \X Energies : iv[1] <= iv[2]}

NewArgs(kind, w, flev, Emin, Emax) ==
  [kind |-> kind, width |-> w, flev |-> flev, Emin |-> Emin, Emax |-> Emax,
   skip |-> FALSE]

\* new FragmentDiscreteExitChannel(w, flev, residue, frag)
NewFragmentDiscrete(o, w, flev) ==
  /\ chan[o] = NoChannel
  /\ chan' = [chan EXCEPT ![o] = FragmentDiscreteExitChannel(w, flev)]
  /\ args' = [args EXCEPT ![o] = NewArgs("FragmentDiscrete", w, flev, 0, 0)]
  /\ UNCHANGED <<nuc, rng, last, hist, cascade, sel>>
  /\ UNCHANGED <<thread, eventVars>>

\* new GammaDiscreteExitChannel(w, flev, residue)
NewGammaDiscrete(o, w, flev) ==
  /\ chan[o] = NoChannel
  /\ chan' = [chan EXCEPT ![o] = GammaDiscreteExitChannel(w, flev)]
  /\ args' = [args EXCEPT ![o] = NewArgs("GammaDiscrete", w, flev, 0, 0)]
  /\ UNCHANGED <<nuc, rng, last, hist, cascade, sel>>
  /\ UNCHANGED <<thread, eventVars>>

\* new FragmentContinuumExitChannel(w, Emin, Emax, Epdf, frag, gs_residue)
NewFragmentContinuum(o, w, iv, pdf) ==
  /\ chan[o] = NoChannel
  /\ chan' = [chan EXCEPT
       ![o] = FragmentContinuumExitChannel(w, iv[1], iv[2], pdf)]
  /\ args' = [args EXCEPT ![o] = NewArgs("FragmentContinuum", w, 0, iv[1], iv[2])]
  /\ UNCHANGED <<nuc, rng, last, hist, cascade, sel>>
  /\ UNCHANGED <<thread, eventVars>>

\* new GammaContinuumExitChannel(w, Emin, Emax, Epdf, gs_residue)
NewGammaContinuum(o, w, iv, pdf) ==
  /\ chan[o] = NoChannel
  /\ chan' = [chan EXCEPT
       ![o] = GammaContinuumExitChannel(w, iv[1], iv[2], pdf)]
  /\ args' = [args EXCEPT ![o] = NewArgs("GammaContinuum", w, 0, iv[1], iv[2])]
  /\ UNCHANGED <<nuc, rng, last, hist, cascade, sel>>
  /\ UNCHANGED <<thread, eventVars>>

\* channel.set_skip_jpi_sampling(skip_it)
SetSkip(o, skip_it) ==
  /\ chan[o] # NoChannel
  /\ is_continuum(chan[o])
  /\ chan' = [chan EXCEPT ![o] = set_skip_jpi_sampling(chan[o], skip_it)]
  /\ args' = [args EXCEPT ![o].skip = skip_it]
  /\ UNCHANGED <<nuc, rng, last, hist, cascade, sel>>
  /\ UNCHANGED <<thread, eventVars>>

\* What a decay call leaves for the caller to see
CallRecord(o, st, res) ==
  [status |-> res.status, obj |-> o, skip |-> args[o].skip,
   entry_two_J |-> st.two_J, entry_Pi |-> st.Pi,
   ecdf_cached |-> chan[o].Ecdf_ # <<>>, jpi_cached |-> chan[o].jpi_built,
   draws |-> res.draws]

\* channel.do_decay(Ex, two_J, Pi, emitted_particle, residual_nucleus, gen)
\* called in run r with (Ex, two_J, Pi) = st
DecayCall(o, r, st) ==
  /\ chan[o] # NoChannel
  /\ LET res == do_decay(chan[o], st, rng[r])
     IN /\ chan' = [chan EXCEPT ![o] = res.chan]
        /\ nuc' = [nuc EXCEPT ![r] =
                     [Ex |-> res.Ex, two_J |-> res.two_J, Pi |-> res.Pi]]
        /\ rng' = [rng EXCEPT ![r] = res.rng]
        /\ last' = [last EXCEPT ![r] = CallRecord(o, st, res)]

Decay(o, r, st) ==
  /\ DecayCall(o, r, st)
  /\ UNCHANGED <<args, hist, cascade, sel>>
  /\ UNCHANGED <<thread, eventVars>>

Idle == [status |-> "idle"]

\* No thread has entered do_decay and no Event has been constructed
NoThreadsNoEvents ==
  /\ thread = <<>>
  /\ events = <<>>
  /\ heap = <<>>
  /\ op = [name |-> "none"]
  /\ fault = {}

NoSelection == [status |-> "none"]

Init ==
  /\ chan = [o \in {1} |-> NoChannel]
  /\ args = [o \in {1} |-> NoArgs]
  /\ nuc = [r \in {1} |-> [Ex |-> MaxE, two_J |-> 0, Pi |-> 1]]
  /\ rng \in [{1} -> 0..(RngMod - 1)]
  /\ last = [r \in {1} |-> NoCall]
  /\ hist = [r \in {1} |-> <<>>]
  /\ cascade = Idle
  /\ sel = NoSelection
  /\ NoThreadsNoEvents

Next ==
  \/ \E o \in DOMAIN chan, w \in Widths, flev \in LevelIds :
       NewFragmentDiscrete(o, w, flev)
  \/ \E o \in DOMAIN chan, w \in Widths, flev \in LevelIds :
       NewGammaDiscrete(o, w, flev)
  \/ \E o \in DOMAIN chan, w \in Widths, iv \in ContinuumIntervals,
        pdf \in PdfNames :
       NewFragmentContinuum(o, w, iv, pdf)
  \/ \E o \in DOMAIN chan, w \in Widths, iv \in ContinuumIntervals,
        pdf \in PdfNames :
       NewGammaContinuum(o, w, iv, pdf)
  \/ \E o \in DOMAIN chan, skip_it \in BOOLEAN : SetSkip(o, skip_it)
  \/ \E o \in DOMAIN chan, r \in DOMAIN nuc, st \in EntryStates :
       Decay(o, r, st)

Spec == Init /\ [][Next]_vars

----------------------------------------------------------------------------
(* Properties of the channel objects, checked under Spec *)

Live == {o \in DOMAIN chan : chan[o] # NoChannel}

Called == {r \in DOMAIN last : last[r].status # "none"}

LevelState(l) ==
  [Ex |-> Levels[l].energy, two_J |-> Levels[l].twoJ, Pi |-> Levels[l].parity]

\* C1: width() of every channel object equals the width its constructor was
\* given, after construction and after any decays, flag changes and cache
\* builds.
C1_WidthIsConstructorArgument ==
  \A o \in Live : width(chan[o]) = args[o].width

C1_Witness ==
  \E o \in Live :
    /\ chan[o].used /\ chan[o].ecdf_builds = 1 /\ chan[o].jpi_builds = 1
    /\ chan[o].skip_jpi_sampling_
    /\ args[o].width > 0 /\ width(chan[o]) = args[o].width

\* C2: no channel object exists whose constructor was given a negative
\* width, so every channel has width >= 0.
C2_NegativeWidthRejected ==
  \A o \in Live : args[o].width >= 0 /\ width(chan[o]) >= 0

\* C3: a decay through a discrete channel returns with (Ex, two_J, Pi) equal
\* to the values of the level the channel was constructed with, whatever the
\* state on entry.
C3_DiscreteDecayGivesLevel ==
  \A r \in Called :
    ~is_continuum(chan[last[r].obj]) =>
      /\ last[r].status = "ok"
      /\ nuc[r] = LevelState(args[last[r].obj].flev)

C3_Witness ==
  \E r \in Called :
    /\ chan[last[r].obj].kind = "GammaDiscrete"
    /\ args[last[r].obj].flev = 1
    /\ last[r].entry_two_J = 0 /\ last[r].entry_Pi = -1
    /\ nuc[r] = [Ex |-> 1, two_J |-> 4, Pi |-> 1]

\* C4: a successful decay through a continuum channel constructed with
\* bounds Emin <= Emax returns with Emin <= Ex <= Emax, on the call that
\* builds the interpolant and on the calls that reuse it.
C4_SampledEnergyInBounds ==
  \A r \in Called :
    (last[r].status = "ok" /\ is_continuum(chan[last[r].obj])) =>
      /\ args[last[r].obj].Emin <= nuc[r].Ex
      /\ nuc[r].Ex <= args[last[r].obj].Emax

C4_Witness ==
  \E r \in Called :
    /\ last[r].status = "ok" /\ is_continuum(chan[last[r].obj])
    /\ last[r].ecdf_cached
    /\ args[last[r].obj].Emin < args[last[r].obj].Emax
    /\ nuc[r].Ex = args[last[r].obj].Emax

RngBefore(x) == {y \in 0..(RngMod - 1) : NextRng(y) = x}

\* C7: with the skip flag set, a decay through a continuum channel returns
\* with two_J and Pi as on entry, having neither built nor sampled the
\* table, and with Ex the energy sampled in phase 1; with the flag clear,
\* two_J and Pi are those of an entry of the table.
C7_SkipLeavesSpinParity ==
  \A r \in Called :
    LET o == last[r].obj
        c == chan[o]
    IN (last[r].status = "ok" /\ is_continuum(c)) =>
         IF last[r].skip
           THEN /\ nuc[r].two_J = last[r].entry_two_J
                /\ nuc[r].Pi = last[r].entry_Pi
                /\ c.jpi_built = last[r].jpi_cached
                /\ last[r].draws = 1
                /\ \E y \in RngBefore(rng[r]) : nuc[r].Ex = InverseCdf(c, y)
           ELSE /\ last[r].draws = 2
                /\ \E i \in DOMAIN c.jpi_widths_table_ :
                     /\ nuc[r].two_J = c.jpi_widths_table_[i].twoJf
                     /\ nuc[r].Pi = c.jpi_widths_table_[i].Pf

C7_Witness ==
  \E r \in Called :
    /\ last[r].status = "ok" /\ is_continuum(chan[last[r].obj])
    /\ last[r].skip /\ ~chan[last[r].obj].jpi_built
    /\ nuc[r].two_J = last[r].entry_two_J /\ nuc[r].Pi = last[r].entry_Pi
    /\ nuc[r].Ex = 2 /\ last[r].entry_two_J = 1

\* C8: with the skip flag clear, a decay through a continuum channel whose
\* phase 1 succeeded and whose table has no entries fails with
\* NoAccessibleChannel; it does not return a state.
C8_EmptyTableFails ==
  \A r \in Called :
    LET c == chan[last[r].obj]
    IN (/\ is_continuum(c) /\ ~last[r].skip
        /\ last[r].status \notin {"DensityViolation",
                                  "NumericalConvergenceFailure"}
        /\ c.jpi_widths_table_ = <<>>)
         => last[r].status = "NoAccessibleChannel"

C8_Witness ==
  \E r \in Called :
    LET c == chan[last[r].obj]
    IN /\ is_continuum(c) /\ ~last[r].skip
       /\ c.jpi_built /\ c.jpi_widths_table_ = <<>>
       /\ last[r].status = "NoAccessibleChannel"

----------------------------------------------------------------------------
(* Width-weighted selection over a list of channels                        *)
(* The caller loads a std::discrete_distribution through the iterators     *)
(* make_width_iterator gives and samples an index from it.                 *)

Weights == 0..MaxWeight

ChannelLists ==
  UNION {[1..n -> {GammaDiscreteExitChannel(w, 1) : w \in Weights}] :
           n \in 1..MaxLen}

\* The lists the selector accepts: weights >= 0 with a positive total
SelectableLists == {l \in ChannelLists : SumTo([i \in DOMAIN l |-> width(l[i])], Len(l)) > 0}

\* One selection: a draw t from Uniform[0, total) and the index it selects
Select(t) ==
  /\ sel.status = "input"
  /\ LET w == make_width_iterator(sel.list)
     IN /\ t \in 0..(Total(w) - 1)
        /\ sel' = [status |-> "selected", list |-> sel.list, t |-> t,
                   index |-> WeightedSelect(w, t), after |-> sel.list]
  /\ UNCHANGED <<chan, args, nuc, rng, last, hist, cascade>>
  /\ UNCHANGED <<thread, eventVars>>

InitSel ==
  /\ chan = [o \in {1} |-> NoChannel]
  /\ args = [o \in {1} |-> NoArgs]
  /\ nuc = [r \in {1} |-> [Ex |-> MaxE, two_J |-> 0, Pi |-> 1]]
  /\ rng = [r \in {1} |-> 0]
  /\ last = [r \in {1} |-> NoCall]
  /\ hist = [r \in {1} |-> <<>>]
  /\ cascade = Idle
  /\ \E l \in SelectableLists : sel = [status |-> "input", list |-> l]
  /\ NoThreadsNoEvents

NextSel == \E t \in 0..(MaxLen * MaxWeight) : Select(t)

SpecSel == InitSel /\ [][NextSel]_vars

\* The draws of Uniform[0, total) that select position k of the weights w
DrawsSelecting(w, k) == {t \in 0..(Total(w) - 1) : WeightedSelect(w, t) = k}

\* C9: over a list with weights >= 0 and a positive total, the element
\* selected by a draw t is the first whose cumulative weight exceeds t: its
\* index lies in the list, its weight is not 0, each element is selected by
\* as many draws as its weight, and the list is left as it was.
C9_WeightedSelection ==
  sel.status = "selected" =>
    LET w == [i \in DOMAIN sel.list |-> width(sel.list[i])]
        k == sel.index
    IN /\ k \in DOMAIN sel.list
       /\ SumTo(w, k) > sel.t
       /\ \A j \in 1..(k - 1) : SumTo(w, j) <= sel.t
       /\ w[k] > 0
       /\ \A i \in DOMAIN w : Cardinality(DrawsSelecting(w, i)) = w[i]
       /\ sel.after = sel.list

C9_Witness ==
  /\ sel.status = "selected"
  /\ [i \in DOMAIN sel.list |-> width(sel.list[i])] = <<1, 2, 3>>
  /\ sel.t = 3 /\ sel.index = 3

----------------------------------------------------------------------------
(* Two runs from the same start                                            *)
(* Each run has its own channel object, generator and nuclear state; both  *)
(* start from one channel state, one generator state and one nuclear       *)
(* state, and each makes successive decay calls on its own.                *)

Runs == {1, 2}

\* The channel objects a run may start with, with the arguments that made
\* them
ChannelsOfWidth(w) ==
  {<<FragmentDiscreteExitChannel(w, l), NewArgs("FragmentDiscrete", w, l, 0, 0)>> :
     l \in LevelIds}
  \cup
  {<<GammaDiscreteExitChannel(w, l), NewArgs("GammaDiscrete", w, l, 0, 0)>> :
     l \in LevelIds}
  \cup
  {<<FragmentContinuumExitChannel(w, iv[1], iv[2], pdf),
     NewArgs("FragmentContinuum", w, 0, iv[1], iv[2])>> :
     iv \in ContinuumIntervals, pdf \in PdfNames}
  \cup
  {<<GammaContinuumExitChannel(w, iv[1], iv[2], pdf),
     NewArgs("GammaContinuum", w, 0, iv[1], iv[2])>> :
     iv \in ContinuumIntervals, pdf \in PdfNames}

StartChannels == ChannelsOfWidth(1)

StartStates == {st \in NuclearStates : st.Ex = MaxE}

Outcome(r) ==
  [status |-> last[r].status, Ex |-> nuc[r].Ex, two_J |-> nuc[r].two_J,
   Pi |-> nuc[r].Pi, draws |-> last[r].draws]

\* The next decay call of run r, on the state its previous call returned
RunDecay(r) ==
  /\ Len(hist[r]) < MaxCalls
  /\ last[r].status \in {"none", "ok"}
  /\ DecayCall(r, r, nuc[r])
  /\ hist' = [hist EXCEPT ![r] = Append(@, Outcome(r)')]
  /\ UNCHANGED <<args, cascade, sel>>
  /\ UNCHANGED <<thread, eventVars>>

InitDet ==
  /\ \E ca \in StartChannels, skip_it \in BOOLEAN :
       /\ chan = [o \in Runs |->
                    IF is_continuum(ca[1])
                      THEN set_skip_jpi_sampling(ca[1], skip_it) ELSE ca[1]]
       /\ args = [o \in Runs |->
                    IF is_continuum(ca[1])
                      THEN [ca[2] EXCEPT !.skip = skip_it] ELSE ca[2]]
  /\ \E st \in StartStates : nuc = [r \in Runs |-> st]
  /\ \E x \in 0..(RngMod - 1) : rng = [r \in Runs |-> x]
  /\ last = [r \in Runs |-> NoCall]
  /\ hist = [r \in Runs |-> <<>>]
  /\ cascade = Idle
  /\ sel = NoSelection
  /\ NoThreadsNoEvents

NextDet == \E r \in Runs : RunDecay(r)

SpecDet == InitDet /\ [][NextDet]_vars

RECURSIVE DrawsOf(_)
DrawsOf(h) == IF h = <<>> THEN 0 ELSE h[1].draws + DrawsOf(Tail(h))

----------------------------------------------------------------------------
(* The decay chain                                                         *)
(* The driver holds the nuclear state.  At each step it lists the channels *)
(* open to that state, ends the cascade when none has a non-zero width,    *)
(* and otherwise selects one by width and calls its do_decay; a failed     *)
(* call ends the cascade.                                                  *)

\* The widths the statistical-model builder gives its channels are >= 0
CascadeWidths == {0, MaxWidth}

Errors == {"DensityViolation", "NumericalConvergenceFailure",
           "NoAccessibleChannel"}

\* A channel is open to a state of excitation energy ex when every final
\* state it leads to lies below ex
Accessible(c, ex) ==
  IF is_continuum(c) THEN c.Emax_ < ex
  ELSE Levels[c.final_level_].energy < ex

Candidates(ex) == SeqOfSet({o \in DOMAIN chan : Accessible(chan[o], ex)})

CandidateWidths(ex) ==
  LET ids == Candidates(ex)
  IN make_width_iterator([i \in DOMAIN ids |-> chan[ids[i]]])

\* The driver's loop state after a decay call that returned res
\* (AfterStep_Retry: a driver that stays in its loop after a failed call.)
AfterStep_Retry(res) ==
  IF res.status = "ok"
    THEN [status |-> "running", steps |-> cascade.steps + 1, error |-> "none"]
    ELSE cascade

AfterStep(res) ==
  IF res.status = "ok"
    THEN [status |-> "running", steps |-> cascade.steps + 1, error |-> "none"]
    ELSE [status |-> "failed", steps |-> cascade.steps, error |-> res.status]

\* No channel of non-zero width is open: the cascade is complete
CascadeComplete ==
  /\ cascade.status = "running"
  /\ LET w == CandidateWidths(nuc[1].Ex)
     IN \A i \in DOMAIN w : w[i] = 0
  /\ cascade' = [cascade EXCEPT !.status = "done"]
  /\ UNCHANGED <<chan, args, nuc, rng, last, hist, sel>>
  /\ UNCHANGED <<thread, eventVars>>

\* One decay step: select a channel by width, call its do_decay
CascadeStep ==
  /\ cascade.status = "running"
  /\ LET ids == Candidates(nuc[1].Ex)
         w == CandidateWidths(nuc[1].Ex)
     IN /\ \E i \in DOMAIN w : w[i] # 0
        /\ LET o == ids[WeightedSelect(w, UniformBelow(rng[1], Total(w)))]
               res == do_decay(chan[o], nuc[1], NextRng(rng[1]))
               exit == [Ex |-> res.Ex, two_J |-> res.two_J, Pi |-> res.Pi]
           IN /\ chan' = [chan EXCEPT ![o] = res.chan]
              /\ nuc' = [nuc EXCEPT ![1] = exit]
              /\ rng' = [rng EXCEPT ![1] = res.rng]
              /\ last' = [last EXCEPT ![1] = CallRecord(o, nuc[1], res)]
              /\ hist' = [hist EXCEPT ![1] =
                   IF res.status = "ok"
                     THEN Append(@, [entry |-> nuc[1], exit |-> exit,
                                     pdg |-> emitted_particle_pdg(chan[o])])
                     ELSE @]
              /\ cascade' = AfterStep(res)
  /\ UNCHANGED <<args, sel>>
  /\ UNCHANGED <<thread, eventVars>>

\* The statistical-model builder constructs the channels of the event and
\* the reaction model hands over the initial nuclear state
StartCascade ==
  /\ cascade.status = "idle"
  /\ \E w1 \in CascadeWidths, w2 \in CascadeWidths :
       \E a \in ChannelsOfWidth(w1) :
         \E b \in {ca \in ChannelsOfWidth(w2) : ~is_continuum(ca[1])} :
           /\ chan' = <<a[1], b[1]>>
           /\ args' = <<a[2], b[2]>>
  /\ rng' \in [{1} -> 0..(RngMod - 1)]
  /\ cascade' = [status |-> "running", steps |-> 0, error |-> "none"]
  /\ UNCHANGED <<nuc, last, hist, sel>>
  /\ UNCHANGED <<thread, eventVars>>

InitCascade ==
  /\ chan = <<NoChannel, NoChannel>>
  /\ args = <<NoArgs, NoArgs>>
  /\ nuc = [r \in {1} |-> [Ex |-> MaxE, two_J |-> 0, Pi |-> 1]]
  /\ rng = [r \in {1} |-> 0]
  /\ last = [r \in {1} |-> NoCall]
  /\ hist = [r \in {1} |-> <<>>]
  /\ cascade = Idle
  /\ sel = NoSelection
  /\ NoThreadsNoEvents

NextCascade == StartCascade \/ CascadeComplete \/ CascadeStep

SpecCascade == InitCascade /\ [][NextCascade]_vars

Ended == cascade.status \in {"done", "failed"}

CascadeShape ==
  /\ cascade.status = "done" =>
       \A o \in DOMAIN chan :
         Accessible(chan[o], nuc[1].Ex) => args[o].width = 0
  /\ cascade.status = "failed" =>
       /\ last[1].status \in Errors
       /\ cascade.error = last[1].status
  /\ cascade.status = "running" => last[1].status \in {"none", "ok"}
  /\ cascade.status # "idle" => cascade.steps + nuc[1].Ex <= MaxE
  /\ cascade.status # "idle" => Len(hist[1]) = cascade.steps
  /\ \A i \in 2..Len(hist[1]) : hist[1][i].entry = hist[1][i - 1].exit
  /\ (Len(hist[1]) > 0 /\ cascade.status # "failed") =>
       nuc[1] = hist[1][Len(hist[1])].exit

\* Every step of a running cascade ends it or lowers Ex, which is never
\* below 0, and the guards of the driver's two steps are complementary: a
\* running cascade cannot go on for ever.
Progress ==
  cascade.status = "running" => (Ended' \/ nuc[1]'.Ex < nuc[1].Ex)

----------------------------------------------------------------------------
(* The event record (src/Event.cc).  An Event owns the marley::Particle    *)
(* objects its two vectors point to.  The heap maps every address to the   *)
(* value of the particle living there, or to Free.                         *)

MaxSeq == 3        \* particles per vector of an Event
MaxOps == 4        \* operations a run performs on its Event objects
Slots == {1, 2}

\* The particle values handed to an Event
Particles == {1}

\* The value of a default-constructed marley::Particle
DefaultParticle == 0

\* What a read of a deleted particle may give
ParticleValues == {DefaultParticle} \cup Particles

ExValues == {0, 1}

Free == -1

Addrs == 1..(4 * MaxSeq)

PROJECTILE_INDEX == 0

TARGET_INDEX == 1

EJECTILE_INDEX == 0

RESIDUE_INDEX == 1

\* A slot that holds no Event object (before construction, after ~Event).
\* exists and intact are bookkeeping of the model: exists says whether the
\* slot holds an object, intact whether the object's content comes from a
\* constructor call and not from an event that was moved from.
NoEvent ==
  [initial_particles_ |-> <<>>, final_particles_ |-> <<>>, Ex_ |-> 0,
   exists |-> FALSE, intact |-> FALSE]

\* n counts the operations performed so far
NoOp == [name |-> "none", n |-> 0]

\* new marley::Particle(v), once for every element of vals, in order: the
\* allocator hands out the lowest free address
RECURSIVE NewParticles(_, _)
NewParticles(h, vals) ==
  IF vals = <<>>
    THEN [heap |-> h, ptrs |-> <<>>]
    ELSE LET a == CHOOSE x \in Addrs :
                    /\ h[x] = Free
                    /\ \A y \in Addrs : h[y] = Free => x <= y
             rest == NewParticles([h EXCEPT ![a] = Head(vals)], Tail(vals))
         IN [heap |-> rest.heap, ptrs |-> <<a>> \o rest.ptrs]

\* for (auto& p : ptrs) delete p;  twice says whether some pointer referred
\* to a particle that was already deleted
RECURSIVE DeleteParticles(_, _)
DeleteParticles(h, ptrs) ==
  IF ptrs = <<>>
    THEN [heap |-> h, twice |-> FALSE]
    ELSE LET a == Head(ptrs)
             rest == DeleteParticles([h EXCEPT ![a] = Free], Tail(ptrs))
         IN [heap |-> rest.heap, twice |-> rest.twice \/ h[a] = Free]

\* Some pointer of ptrs refers to a deleted particle
Dangling(h, ptrs) == \E i \in DOMAIN ptrs : h[ptrs[i]] = Free

\* *ptrs[i] for every i.  Reading a deleted particle is undefined: it gives
\* g[i], which the caller draws freely from ParticleValues
ReadParticles(h, ptrs, g) ==
  [i \in DOMAIN ptrs |-> IF h[ptrs[i]] # Free THEN h[ptrs[i]] ELSE g[i]]

\* The results of the operations below: the event itself (this), the other
\* event where there is one, the heap, and the faults of the call
EventResult(this, other, h, faults) ==
  [this |-> this, other |-> other, heap |-> h, faults |-> faults]

\* Event::Event(double Ex) with no dummy particles
Event_NoDummies(h, Ex) ==
  EventResult([initial_particles_ |-> <<>>, final_particles_ |-> <<>>,
               Ex_ |-> Ex, exists |-> TRUE, intact |-> TRUE],
              NoEvent, h, {})

\* Event::Event(double Ex)
\*   : initial_particles_{new Particle(), new Particle()},
\*     final_particles_{new Particle(), new Particle()}, Ex_(Ex) {}
Event(h, Ex) ==
  LET ini == NewParticles(h, <<DefaultParticle, DefaultParticle>>)
      fin == NewParticles(ini.heap, <<DefaultParticle, DefaultParticle>>)
  IN EventResult([initial_particles_ |-> ini.ptrs,
                  final_particles_ |-> fin.ptrs,
                  Ex_ |-> Ex, exists |-> TRUE, intact |-> TRUE],
                 NoEvent, fin.heap, {})

\* Event::Event(const Particle& a, const Particle& b, const Particle& c,
\*   const Particle& d, double Ex)
EventOfParticles(h, a, b, c, d, Ex) ==
  LET ini == NewParticles(h, <<a, b>>)
      fin == NewParticles(ini.heap, <<c, d>>)
  IN EventResult([initial_particles_ |-> ini.ptrs,
                  final_particles_ |-> fin.ptrs,
                  Ex_ |-> Ex, exists |-> TRUE, intact |-> TRUE],
                 NoEvent, fin.heap, {})

\* Event::~Event()
Destructor(this, h) ==
  LET ini == DeleteParticles(h, this.initial_particles_)
      fin == DeleteParticles(ini.heap, this.final_particles_)
  IN EventResult(NoEvent, NoEvent, fin.heap,
                 IF ini.twice \/ fin.twice THEN {"double_delete"} ELSE {})

\* Event::Event(const Event& other_event): a new particle for every particle
\* of other_event, copy-constructed from it
CopyConstructor(other, h, gi, gf) ==
  LET ini == NewParticles(h, ReadParticles(h, other.initial_particles_, gi))
      fin == NewParticles(ini.heap,
                          ReadParticles(h, other.final_particles_, gf))
  IN EventResult([initial_particles_ |-> ini.ptrs,
                  final_particles_ |-> fin.ptrs,
                  Ex_ |-> other.Ex_, exists |-> TRUE,
                  intact |-> other.intact],
                 other, fin.heap,
                 IF Dangling(h, other.initial_particles_ \o
                                other.final_particles_)
                   THEN {"read_after_delete"} ELSE {})

\* Event::Event(Event&& other_event): takes the pointers of other_event
\* and clears its vectors
MoveConstructor(other, h) ==
  EventResult([initial_particles_ |-> other.initial_particles_,
               final_particles_ |-> other.final_particles_,
               Ex_ |-> other.Ex_, exists |-> TRUE, intact |-> other.intact],
              [other EXCEPT !.initial_particles_ = <<>>,
                            !.final_particles_ = <<>>,
                            !.Ex_ = 0, !.intact = FALSE],
              h, {})

\* Event::operator=(const Event& other_event).  The particles of this event
\* are deleted first; same says that other_event is this event, whose
\* particles are then read after their deletion.
CopyAssignment(this, other, same, h, gi, gf) ==
  LET di == DeleteParticles(h, this.initial_particles_)
      df == DeleteParticles(di.heap, this.final_particles_)
      h1 == df.heap
      ini == NewParticles(h1, ReadParticles(h1, other.initial_particles_, gi))
      fin == NewParticles(ini.heap,
                          ReadParticles(h1, other.final_particles_, gf))
      assigned == [initial_particles_ |-> ini.ptrs,
                   final_particles_ |-> fin.ptrs,
                   Ex_ |-> other.Ex_, exists |-> TRUE,
                   intact |-> other.intact]
  IN EventResult(assigned, IF same THEN assigned ELSE other, fin.heap,
                 (IF di.twice \/ df.twice THEN {"double_delete"} ELSE {})
                 \cup
                 (IF Dangling(h1, other.initial_particles_ \o
                                  other.final_particles_)
                    THEN {"read_after_delete"} ELSE {}))

\* Event::operator=(Event&& other_event).  The particles of this event are
\* deleted, the pointers of other_event are taken and its vectors cleared;
\* when other_event is this event, the cleared vectors are its own.
MoveAssignment(this, other, same, h) ==
  LET di == DeleteParticles(h, this.initial_particles_)
      df == DeleteParticles(di.heap, this.final_particles_)
      cleared == [other EXCEPT !.initial_particles_ = <<>>,
                               !.final_particles_ = <<>>,
                               !.Ex_ = 0, !.intact = FALSE]
      assigned == [initial_particles_ |-> other.initial_particles_,
                   final_particles_ |-> other.final_particles_,
                   Ex_ |-> other.Ex_, exists |-> TRUE,
                   intact |-> other.intact]
  IN EventResult(IF same THEN cleared ELSE assigned, cleared, df.heap,
                 IF di.twice \/ df.twice THEN {"double_delete"} ELSE {})

\* add_final_particle putting the new particle first
add_final_particle_Front(this, h, p) ==
  LET np == NewParticles(h, <<p>>)
  IN EventResult([this EXCEPT !.final_particles_ = np.ptrs \o @],
                 NoEvent, np.heap, {})

\* void Event::add_initial_particle(const Particle& p)
\*   { initial_particles_.push_back(new marley::Particle(p)); }
add_initial_particle(this, h, p) ==
  LET np == NewParticles(h, <<p>>)
  IN EventResult([this EXCEPT !.initial_particles_ = @ \o np.ptrs],
                 NoEvent, np.heap, {})

\* void Event::add_final_particle(const Particle& p)
\*   { final_particles_.push_back(new marley::Particle(p)); }
add_final_particle(this, h, p) ==
  LET np == NewParticles(h, <<p>>)
  IN EventResult([this EXCEPT !.final_particles_ = @ \o np.ptrs],
                 NoEvent, np.heap, {})

\* *v.at(k): std::out_of_range unless k < v.size()
At(v, k, h) ==
  IF k < Len(v)
    THEN [status |-> IF h[v[k + 1]] = Free THEN "read_after_delete" ELSE "ok",
          out |-> <<h[v[k + 1]]>>]
    ELSE [status |-> "out_of_range", out |-> <<>>]

projectile(this, h) == At(this.initial_particles_, PROJECTILE_INDEX, h)

target(this, h) == At(this.initial_particles_, TARGET_INDEX, h)

ejectile(this, h) == At(this.final_particles_, EJECTILE_INDEX, h)

residue(this, h) == At(this.final_particles_, RESIDUE_INDEX, h)

\* The particles written for a vector of pointers
Dump(v, h) == [i \in DOMAIN v |-> h[v[i]]]

\* Event::print: nothing for an event without initial particles, else the
\* projectile and every final particle
print(this, h) ==
  IF this.initial_particles_ = <<>>
    THEN [status |-> "ok", out |-> <<>>]
    ELSE [status |-> IF Dangling(h, this.initial_particles_ \o
                                    this.final_particles_)
                       THEN "read_after_delete" ELSE "ok",
          out |-> <<h[this.initial_particles_[PROJECTILE_INDEX + 1]]>> \o
                  Dump(this.final_particles_, h)]

\* Event::write_hepevt: the header line, then the projectile through
\* initial_particles_.at(PROJECTILE_INDEX), then every final particle
write_hepevt(this, h) ==
  LET first == At(this.initial_particles_, PROJECTILE_INDEX, h)
  IN IF first.status = "out_of_range"
       THEN first
       ELSE [status |-> IF Dangling(h, this.final_particles_)
                          THEN "read_after_delete" ELSE first.status,
             out |-> first.out \o Dump(this.final_particles_, h)]

Accessors == {"projectile", "target", "ejectile", "residue", "print",
              "write_hepevt"}

Access(name, this, h) ==
  CASE name = "projectile" -> projectile(this, h)
    [] name = "target" -> target(this, h)
    [] name = "ejectile" -> ejectile(this, h)
    [] name = "residue" -> residue(this, h)
    [] name = "print" -> print(this, h)
    [] name = "write_hepevt" -> write_hepevt(this, h)

----------------------------------------------------------------------------
(* The operations a program performs on its Event objects *)

\* The values an operation may read through the pointers ptrs: for a
\* pointer to a deleted particle, any value
ValuesRead(ptrs, h) ==
  {g \in [DOMAIN ptrs -> ParticleValues] :
     \A i \in DOMAIN ptrs : h[ptrs[i]] # Free => g[i] = DefaultParticle}

OpRecord(name, e, f, p, acc) ==
  [name |-> name, obj |-> e, src |-> f, p |-> p, status |-> acc.status,
   out |-> acc.out, n |-> op.n + 1]

Done == [status |-> "ok", out |-> <<>>]

\* The state after an operation on slot e (and slot f) that returned res.
\* Nothing is said about a program after a memory fault: it takes no
\* further step.
Apply(name, e, f, p, res) ==
  /\ fault = {}
  /\ op.n < MaxOps
  /\ events' = [events EXCEPT ![f] = res.other, ![e] = res.this]
  /\ heap' = res.heap
  /\ fault' = fault \cup res.faults
  /\ op' = OpRecord(name, e, f, p, Done)
  /\ UNCHANGED <<channelVars, thread>>

\* marley::Event e(Ex);
NewEvent(e, Ex) ==
  /\ ~events[e].exists
  /\ Apply("Event", e, e, 0, Event(heap, Ex))

\* marley::Event e(a, b, c, d, Ex);
NewEventOfParticles(e, a, b, c, d, Ex) ==
  /\ ~events[e].exists
  /\ Apply("EventOfParticles", e, e, 0, EventOfParticles(heap, a, b, c, d, Ex))

\* e goes out of scope or is deleted
DestroyEvent(e) ==
  /\ events[e].exists
  /\ Apply("Destructor", e, e, 0, Destructor(events[e], heap))

\* marley::Event e(f);
CopyConstruct(e, f) ==
  /\ ~events[e].exists
  /\ events[f].exists
  /\ \E gi \in ValuesRead(events[f].initial_particles_, heap),
        gf \in ValuesRead(events[f].final_particles_, heap) :
       Apply("CopyConstructor", e, f, 0,
             CopyConstructor(events[f], heap, gi, gf))

\* marley::Event e(std::move(f));
MoveConstruct(e, f) ==
  /\ ~events[e].exists
  /\ events[f].exists
  /\ Apply("MoveConstructor", e, f, 0, MoveConstructor(events[f], heap))

\* e = f;  (e and f may be the same object)
CopyAssign(e, f) ==
  /\ events[e].exists
  /\ events[f].exists
  /\ LET h1 == Destructor(events[e], heap).heap
     IN \E gi \in ValuesRead(events[f].initial_particles_, h1),
           gf \in ValuesRead(events[f].final_particles_, h1) :
          Apply("CopyAssignment", e, f, 0,
                CopyAssignment(events[e], events[f], e = f, heap, gi, gf))

\* e = std::move(f);  (e and f may be the same object)
MoveAssign(e, f) ==
  /\ events[e].exists
  /\ events[f].exists
  /\ Apply("MoveAssignment", e, f, 0,
           MoveAssignment(events[e], events[f], e = f, heap))

\* e.add_initial_particle(p);
AddInitial(e, p) ==
  /\ events[e].exists
  /\ Len(events[e].initial_particles_) < MaxSeq
  /\ Apply("add_initial_particle", e, e, p,
           add_initial_particle(events[e], heap, p))

\* e.add_final_particle(p);
AddFinal(e, p) ==
  /\ events[e].exists
  /\ Len(events[e].final_particles_) < MaxSeq
  /\ Apply("add_final_particle", e, e, p,
           add_final_particle(events[e], heap, p))

\* e.projectile(), e.target(), e.ejectile(), e.residue(), e.print(out),
\* e.write_hepevt(n, out)
Call(e, name) ==
  /\ fault = {}
  /\ op.n < MaxOps
  /\ events[e].exists
  /\ LET acc == Access(name, events[e], heap)
     IN /\ op' = OpRecord(name, e, e, 0, acc)
        /\ fault' = fault \cup
             (IF acc.status = "read_after_delete" THEN {acc.status} ELSE {})
  /\ UNCHANGED <<channelVars, thread, events, heap>>

InitEvent ==
  /\ chan = [o \in {1} |-> NoChannel]
  /\ args = [o \in {1} |-> NoArgs]
  /\ nuc = [r \in {1} |-> [Ex |-> MaxE, two_J |-> 0, Pi |-> 1]]
  /\ rng = [r \in {1} |-> 0]
  /\ last = [r \in {1} |-> NoCall]
  /\ hist = [r \in {1} |-> <<>>]
  /\ cascade = Idle
  /\ sel = NoSelection
  /\ thread = <<>>
  /\ events = [e \in Slots |-> NoEvent]
  /\ heap = [a \in Addrs |-> Free]
  /\ op = NoOp
  /\ fault = {}

NextEvent ==
  \/ \E e \in Slots, Ex \in ExValues : NewEvent(e, Ex)
  \/ \E e \in Slots, a \in Particles, b \in Particles, c \in Particles,
        d \in Particles, Ex \in ExValues :
       NewEventOfParticles(e, a, b, c, d, Ex)
  \/ \E e \in Slots : DestroyEvent(e)
  \/ \E e \in Slots, f \in Slots : CopyConstruct(e, f)
  \/ \E e \in Slots, f \in Slots : MoveConstruct(e, f)
  \/ \E e \in Slots, f \in Slots : CopyAssign(e, f)
  \/ \E e \in Slots, f \in Slots : MoveAssign(e, f)
  \/ \E e \in Slots, p \in Particles : AddInitial(e, p)
  \/ \E e \in Slots, p \in Particles : AddFinal(e, p)
  \/ \E e \in Slots, name \in Accessors : Call(e, name)

SpecEvent == InitEvent /\ [][NextEvent]_vars

\* The Event objects that exist
LiveEvents == {e \in Slots : events[e].exists}

\* The pointers an event holds
Pointers(ev) == ev.initial_particles_ \o ev.final_particles_

\* The step of an operation called name
Did(name) == op'.n = op.n + 1 /\ op'.name = name

\* What a step that appends to one vector of event e leaves alone: the
\* particles e held, the other events and Ex
AppendFrame(e) ==
  /\ \A a \in Addrs : heap[a] # Free => heap'[a] = heap[a]
  /\ \A f \in Slots \ {e} : events'[f] = events[f]
  /\ events'[e].Ex_ = events[e].Ex_
  /\ events'[e].exists

\* after is before with one new particle of value p at its end, a particle
\* that did not exist before the step
Appended(before, after, p) ==
  /\ Len(after) = Len(before) + 1
  /\ SubSeq(after, 1, Len(before)) = before
  /\ heap[after[Len(after)]] = Free
  /\ heap'[after[Len(after)]] = p

\* C11: add_final_particle(p) makes the final sequence one longer, puts a
\* copy of p after all the particles it held, and leaves those particles,
\* their order, the initial particles and Ex unchanged; add_initial_particle
\* does the same to the initial sequence and leaves the final one unchanged.
C11_AppendOnly ==
  [][/\ Did("add_final_particle") =>
          /\ Appended(events[op'.obj].final_particles_,
                      events'[op'.obj].final_particles_, op'.p)
          /\ events'[op'.obj].initial_particles_ =
               events[op'.obj].initial_particles_
          /\ AppendFrame(op'.obj)
     /\ Did("add_initial_particle") =>
          /\ Appended(events[op'.obj].initial_particles_,
                      events'[op'.obj].initial_particles_, op'.p)
          /\ events'[op'.obj].final_particles_ =
               events[op'.obj].final_particles_
          /\ AppendFrame(op'.obj)]_vars

\* A particle was appended after the ejectile and the residue of an event
\* made of particles of another value
C11_Witness ==
  /\ op.name = "add_final_particle"
  /\ Len(events[op.obj].final_particles_) = 3
  /\ Dump(events[op.obj].final_particles_, heap) =
       <<DefaultParticle, DefaultParticle, 1>>
  /\ Len(events[op.obj].initial_particles_) = 2

\* The calls that reach into the vectors through at()
Checked == {"projectile", "target", "ejectile", "residue", "write_hepevt"}

\* Event ev holds the projectile/target and the ejectile/residue pairs
HoldsPairs(ev) ==
  /\ Len(ev.initial_particles_) >= 2
  /\ Len(ev.final_particles_) >= 2

\* No checked call on ev fails with std::out_of_range
NeverOutOfRange(ev) ==
  \A name \in Checked : Access(name, ev, heap).status # "out_of_range"

AllPointers ==
  Pointers(events[1]) \o Pointers(events[2])

\* No pointer is held twice, by one event or by two
Exclusive ==
  \A i \in DOMAIN AllPointers, j \in DOMAIN AllPointers :
    i # j => AllPointers[i] # AllPointers[j]

\* C14: no particle is deleted twice or read after its deletion; every
\* pointer a live Event holds refers to a particle that has not been
\* deleted and that no other Event holds; a copy holds equal-valued
\* particles of its own; a moved-from Event holds no particles and has
\* Ex = 0.  Assignment of an event to itself is included.
C14_OwnershipExclusive ==
  /\ fault = {}
  /\ \A e \in LiveEvents : ~Dangling(heap, Pointers(events[e]))
  /\ Exclusive
  /\ op.name \in {"CopyConstructor", "CopyAssignment"} =>
       /\ Dump(events[op.obj].initial_particles_, heap) =
            Dump(events[op.src].initial_particles_, heap)
       /\ Dump(events[op.obj].final_particles_, heap) =
            Dump(events[op.src].final_particles_, heap)
       /\ events[op.obj].Ex_ = events[op.src].Ex_
  /\ op.name \in {"MoveConstructor", "MoveAssignment"} =>
       /\ Pointers(events[op.src]) = <<>>
       /\ events[op.src].Ex_ = 0

----------------------------------------------------------------------------
(* Two threads inside do_decay of continuum channels.  The call is cut at  *)
(* its reads and writes of the caches: the test of the cache, the build    *)
(* (which starts the write of the member), the end of the write and the    *)
(* sampling.  A thread that reads a cache while another thread writes it   *)
(* races with it: what it reads is arbitrary.                              *)

Threads == {1, 2}

\* The channel object thread t works on: one instance for all threads
ThreadObject_OneInstance(t, share) == 1

\* The channel object thread t works on: the same instance for all threads
\* (share), or an instance of its own
ThreadObject(t, share) == IF share THEN 1 ELSE t

\* A thread's record: pc is its position in do_decay, obj its channel
\* object, built, table and exf are locals of the call.  Bookkeeping of the
\* model: own_instance says that the thread was given an instance of its
\* own, saw_ecdf_unbuilt and saw_jpi_unbuilt what its tests of the caches
\* found, raced whether it has read or written a cache while another
\* thread was writing it.

\* The threads other than t that are writing the cache of t's object
Writing(t, pcs) ==
  {u \in Threads \ {t} :
     thread[u].obj = thread[t].obj /\ thread[u].pc \in pcs}

\* The thread returns from do_decay
Return(t, status, ex, twoJ, p, raced) ==
  /\ thread' = [thread EXCEPT ![t].pc = "done",
                               ![t].raced = @ \/ raced]
  /\ nuc' = [nuc EXCEPT ![t] = [Ex |-> ex, two_J |-> twoJ, Pi |-> p]]
  /\ last' = [last EXCEPT ![t] = [status |-> status, obj |-> thread[t].obj]]

\* if ( !Ecdf_ ): the thread looks at the interpolant's pointer
CheckEcdf(t) ==
  /\ thread[t].pc = "check_ecdf"
  /\ LET o == thread[t].obj
         racing == Writing(t, {"write_ecdf"}) # {}
     IN /\ \E unbuilt \in BOOLEAN :
             /\ ~racing => unbuilt = (chan[o].Ecdf_ = <<>>)
             /\ thread' = [thread EXCEPT
                  ![t].pc = IF unbuilt THEN "build_ecdf" ELSE "sample_Ex",
                  ![t].saw_ecdf_unbuilt = unbuilt,
                  ![t].raced = @ \/ racing]
        /\ chan' = [chan EXCEPT ![o].used = TRUE]
  /\ UNCHANGED <<args, nuc, rng, last, hist, cascade, sel, eventVars>>

\* The thread builds the interpolant and starts to store it in Ecdf_
BuildEcdfAndStore(t) ==
  /\ thread[t].pc = "build_ecdf"
  /\ LET b == BuildEcdf(chan[thread[t].obj])
     IN IF b.status = "ok"
          THEN /\ thread' = [thread EXCEPT ![t].pc = "write_ecdf",
                                           ![t].built = b.Ecdf]
               /\ UNCHANGED <<nuc, last>>
          ELSE Return(t, b.status, nuc[t].Ex, nuc[t].two_J, nuc[t].Pi, FALSE)
  /\ UNCHANGED <<chan, args, rng, hist, cascade, sel, eventVars>>

\* The store into Ecdf_ completes
StoreEcdf(t) ==
  /\ thread[t].pc = "write_ecdf"
  /\ chan' = [chan EXCEPT ![thread[t].obj].Ecdf_ = thread[t].built,
                          ![thread[t].obj].ecdf_builds = @ + 1]
  /\ thread' = [thread EXCEPT ![t].pc = "sample_Ex",
                  ![t].raced = @ \/ Writing(t, {"write_ecdf"}) # {}]
  /\ UNCHANGED <<args, nuc, rng, last, hist, cascade, sel, eventVars>>

\* Phase 1: Ex is sampled from the interpolant
SampleEx(t) ==
  /\ thread[t].pc = "sample_Ex"
  /\ LET c == chan[thread[t].obj]
         racing == Writing(t, {"write_ecdf"}) # {}
     IN \E exf \in Energies :
          /\ ~racing => exf = InverseCdf(c, rng[t])
          /\ IF c.skip_jpi_sampling_
               THEN Return(t, "ok", exf, nuc[t].two_J, nuc[t].Pi, racing)
               ELSE /\ thread' = [thread EXCEPT ![t].pc = "check_jpi",
                                                ![t].exf = exf,
                                                ![t].raced = @ \/ racing]
                    /\ UNCHANGED <<nuc, last>>
  /\ rng' = [rng EXCEPT ![t] = NextRng(@)]
  /\ UNCHANGED <<chan, args, hist, cascade, sel, eventVars>>

\* Phase 2: the thread looks whether the spin-parity table has been built
CheckJpi(t) ==
  /\ thread[t].pc = "check_jpi"
  /\ LET racing == Writing(t, {"write_jpi"}) # {}
     IN \E unbuilt \in BOOLEAN :
          /\ ~racing => unbuilt = ~chan[thread[t].obj].jpi_built
          /\ thread' = [thread EXCEPT
               ![t].pc = IF unbuilt THEN "build_jpi" ELSE "sample_jpi",
               ![t].saw_jpi_unbuilt = unbuilt,
               ![t].raced = @ \/ racing]
  /\ UNCHANGED <<chan, args, nuc, rng, last, hist, cascade, sel, eventVars>>

\* The thread computes the table and starts to fill jpi_widths_table_
BuildJpiAndStore(t) ==
  /\ thread[t].pc = "build_jpi"
  /\ thread' = [thread EXCEPT
       ![t].pc = "write_jpi",
       ![t].table = BuildJpiTable(chan[thread[t].obj], thread[t].exf, nuc[t])]
  /\ UNCHANGED <<chan, args, nuc, rng, last, hist, cascade, sel, eventVars>>

\* The table is complete
StoreJpi(t) ==
  /\ thread[t].pc = "write_jpi"
  /\ chan' = [chan EXCEPT ![thread[t].obj].jpi_widths_table_ = thread[t].table,
                          ![thread[t].obj].jpi_built = TRUE,
                          ![thread[t].obj].jpi_builds = @ + 1]
  /\ thread' = [thread EXCEPT ![t].pc = "sample_jpi",
                  ![t].raced = @ \/ Writing(t, {"write_jpi"}) # {}]
  /\ UNCHANGED <<args, nuc, rng, last, hist, cascade, sel, eventVars>>

\* Phase 2: the final spin and parity are drawn from the table
SampleJpi(t) ==
  /\ thread[t].pc = "sample_jpi"
  /\ LET table == chan[thread[t].obj].jpi_widths_table_
         racing == Writing(t, {"write_jpi"}) # {}
     IN IF racing
          THEN /\ \E twoJ \in TwoJs, p \in Parities :
                    Return(t, "ok", thread[t].exf, twoJ, p, TRUE)
               /\ rng' = [rng EXCEPT ![t] = NextRng(@)]
        ELSE IF table = <<>>
          THEN /\ Return(t, "NoAccessibleChannel", nuc[t].Ex, nuc[t].two_J,
                         nuc[t].Pi, FALSE)
               /\ UNCHANGED rng
        ELSE LET w == JpiWidths(table)
                 e == table[WeightedSelect(w, UniformBelow(rng[t], Total(w)))]
             IN /\ Return(t, "ok", thread[t].exf, e.twoJf, e.Pf, FALSE)
                /\ rng' = [rng EXCEPT ![t] = NextRng(@)]
  /\ UNCHANGED <<chan, args, hist, cascade, sel, eventVars>>

ContinuumStartChannels == {ca \in StartChannels : is_continuum(ca[1])}

InitThreads ==
  /\ \E ca \in ContinuumStartChannels, skip_it \in BOOLEAN :
       /\ chan = [o \in Threads |-> set_skip_jpi_sampling(ca[1], skip_it)]
       /\ args = [o \in Threads |-> [ca[2] EXCEPT !.skip = skip_it]]
  /\ nuc = [t \in Threads |-> [Ex |-> MaxE, two_J |-> 0, Pi |-> 1]]
  /\ \E x \in 0..(RngMod - 1) : rng = [t \in Threads |-> x]
  /\ last = [t \in Threads |-> NoCall]
  /\ hist = [t \in Threads |-> <<>>]
  /\ cascade = Idle
  /\ sel = NoSelection
  /\ \E share \in BOOLEAN :
       thread = [t \in Threads |->
                   [pc |-> "check_ecdf", obj |-> ThreadObject(t, share),
                    saw_ecdf_unbuilt |-> FALSE, saw_jpi_unbuilt |-> FALSE,
                    built |-> <<>>, table |-> <<>>, exf |-> 0,
                    raced |-> FALSE, own_instance |-> ~share]]
  /\ events = <<>>
  /\ heap = <<>>
  /\ op = [name |-> "none"]
  /\ fault = {}

NextThreads ==
  \/ \E t \in Threads : CheckEcdf(t)
  \/ \E t \in Threads : BuildEcdfAndStore(t)
  \/ \E t \in Threads : StoreEcdf(t)
  \/ \E t \in Threads : SampleEx(t)
  \/ \E t \in Threads : CheckJpi(t)
  \/ \E t \in Threads : BuildJpiAndStore(t)
  \/ \E t \in Threads : StoreJpi(t)
  \/ \E t \in Threads : SampleJpi(t)

SpecThreads == InitThreads /\ [][NextThreads]_vars

\* A cache of object o has been built more than once
BuiltTwice(o) == chan[o].ecdf_builds > 1 \/ chan[o].jpi_builds > 1

\* Two threads are writing the same cache of the same object
BothWriting ==
  \E t \in Threads, pc \in {"write_ecdf", "write_jpi"} :
    thread[t].pc = pc /\ Writing(t, {pc}) # {}

\* Some thread has read or written a cache that another was writing
Raced == \E t \in Threads : thread[t].raced

Unsafe == (\E o \in DOMAIN chan : BuiltTwice(o)) \/ BothWriting \/ Raced

\* C13: a state in which a cache of a channel was built twice, is being
\* written by two threads, or was read while being written, is reached
\* only when the threads use one channel object (then it is reached:
\* C13_Witness), and a cache is built twice only by threads that both saw
\* it unbuilt; with an instance and a random stream per thread no such
\* state is reachable.
C13_OwnInstancesSafe ==
  /\ Unsafe => \A t \in Threads : ~thread[t].own_instance
  /\ \A o \in DOMAIN chan :
       /\ chan[o].ecdf_builds > 1 =>
            \A t \in Threads :
              thread[t].obj = o /\ thread[t].saw_ecdf_unbuilt
       /\ chan[o].jpi_builds > 1 =>
            \A t \in Threads :
              thread[t].obj = o /\ thread[t].saw_jpi_unbuilt

\* Two threads on one channel both saw its interpolant unbuilt and both
\* built it, and one of them sampled while the other was writing
C13_Witness ==
  /\ \A t \in Threads :
       /\ thread[t].obj = 1
       /\ ~thread[t].own_instance
       /\ thread[t].saw_ecdf_unbuilt
       /\ thread[t].pc = "done"
  /\ chan[1].ecdf_builds = 2
  /\ Raced
====
